---------------------------- MODULE Spec2Model ----------------------------
(***************************************************************************)
(* Conversion tools, error interceptor and state tracker of the            *)
(* unit-conversion agent (src/main.py, src/tools/*.py, src/dto/state.py,    *)
(* src/utils/middlewere_funcs.py).                                          *)
(***************************************************************************)
EXTENDS Integers, Sequences, FiniteSets, TLC

(***************************************************************************)
(* Optional values.  Python's None is the empty sequence, a present value  *)
(* v is <<v>>.                                                              *)
(***************************************************************************)
None == << >>
Some(v) == <<v>>
IsNone(o) == o = None
\* Python truthiness of an optional bool: `if expressed_in_miles:`
Truthy(o) == o # None /\ o[1] = TRUE

(***************************************************************************)
(* Numbers.  A Python float is modelled as an exact signed fraction        *)
(* sgn * num / den whose magnitude is limited by FloatMax: a result above   *)
(* FloatMax overflows to infinity (den = 0), as in IEEE-754 binary64, with  *)
(* the range scaled down.  Rounding of the mantissa is not modelled.        *)
(* num and den are naturals of any size, kept as little-endian sequences    *)
(* of base-10000 digits with no leading zero digit.                         *)
(***************************************************************************)
FloatMax == 100000

Base == 100 * 100

RECURSIVE Big(_)
Big(n) == IF n = 0 THEN << >> ELSE <<n % Base>> \o Big(n \div Base)

Rest(a) == IF a = << >> THEN << >> ELSE Tail(a)
Low(a) == IF a = << >> THEN 0 ELSE Head(a)

RECURSIVE Strip(_)
Strip(a) ==
    IF a # << >> /\ a[Len(a)] = 0 THEN Strip(SubSeq(a, 1, Len(a) - 1)) ELSE a

RECURSIVE BigAdd(_, _, _)
BigAdd(a, b, c) ==
    IF a = << >> /\ b = << >>
    THEN IF c = 0 THEN << >> ELSE <<c>>
    ELSE LET s == Low(a) + Low(b) + c
         IN  <<s % Base>> \o BigAdd(Rest(a), Rest(b), s \div Base)

\* a - b for a >= b
RECURSIVE BigSubB(_, _, _)
BigSubB(a, b, c) ==
    IF a = << >> THEN << >>
    ELSE LET d == Low(a) - Low(b) - c
         IN  IF d < 0
             THEN <<d + Base>> \o BigSubB(Rest(a), Rest(b), 1)
             ELSE <<d>> \o BigSubB(Rest(a), Rest(b), 0)

BigSub(a, b) == Strip(BigSubB(a, b, 0))

RECURSIVE BigMulDigit(_, _, _)
BigMulDigit(a, k, c) ==
    IF a = << >>
    THEN IF c = 0 THEN << >> ELSE <<c>>
    ELSE LET p == Head(a) * k + c
         IN  <<p % Base>> \o BigMulDigit(Tail(a), k, p \div Base)

RECURSIVE BigMul(_, _)
BigMul(a, b) ==
    IF a = << >> \/ b = << >> THEN << >>
    ELSE Strip(BigAdd(BigMulDigit(a, Head(b), 0),
                      IF Tail(b) = << >> THEN << >>
                      ELSE <<0>> \o BigMul(a, Tail(b)),
                      0))

\* -1, 0, 1 as a < b, a = b, a > b
RECURSIVE BigCmp(_, _)
BigCmp(a, b) ==
    IF Len(a) # Len(b) THEN (IF Len(a) < Len(b) THEN -1 ELSE 1)
    ELSE IF a = << >> THEN 0
    ELSE IF a[Len(a)] # b[Len(b)]
         THEN (IF a[Len(a)] < b[Len(b)] THEN -1 ELSE 1)
         ELSE BigCmp(SubSeq(a, 1, Len(a) - 1), SubSeq(b, 1, Len(b) - 1))

Frac(s, p, q) == [sgn |-> s, num |-> p, den |-> q]
Inf(s) == Frac(s, Big(1), Big(0))
IsInf(x) == x.den = << >>
IsZero(x) == x.num = << >> /\ x.den # << >>

\* the literal n / d (d > 0), n an integer
Dec(n, d) ==
    IF n < 0 THEN Frac(-1, Big(-n), Big(d)) ELSE Frac(1, Big(n), Big(d))
Whole(n) == Dec(n, 1)

\* the float an exact result is stored as: infinity above FloatMax
Fl(x) ==
    IF x.den = << >> THEN Inf(x.sgn)
    ELSE IF x.num = << >> THEN Whole(0)
    ELSE IF BigCmp(x.num, BigMul(Big(FloatMax), x.den)) = 1 THEN Inf(x.sgn)
    ELSE x

\* exact arithmetic on fractions
QMul(x, y) == Frac(x.sgn * y.sgn, BigMul(x.num, y.num), BigMul(x.den, y.den))
QDiv(x, y) == Frac(x.sgn * y.sgn, BigMul(x.num, y.den), BigMul(x.den, y.num))
QNeg(x) == Frac(-x.sgn, x.num, x.den)
QAdd(x, y) ==
    IF IsInf(x) THEN Inf(x.sgn)
    ELSE IF IsInf(y) THEN Inf(y.sgn)
    ELSE LET a == BigMul(x.num, y.den)
             b == BigMul(y.num, x.den)
             q == BigMul(x.den, y.den)
         IN  IF x.sgn = y.sgn THEN Frac(x.sgn, BigAdd(a, b, 0), q)
             ELSE IF BigCmp(a, b) >= 0 THEN Frac(x.sgn, BigSub(a, b), q)
             ELSE Frac(y.sgn, BigSub(b, a), q)
QSub(x, y) == QAdd(x, QNeg(y))

\* Python's float operators *, /, +, -: the exact result, stored as a float
FMul(x, y) == Fl(QMul(x, y))
FDiv(x, y) == Fl(QDiv(x, y))
FAdd(x, y) == Fl(QAdd(x, y))
FSub(x, y) == Fl(QSub(x, y))

\* numeric equality of two floats (the representation is not reduced)
NumEq(x, y) ==
    IF IsInf(x) \/ IsInf(y) THEN IsInf(x) /\ IsInf(y) /\ x.sgn = y.sgn
    ELSE IF IsZero(x) \/ IsZero(y) THEN IsZero(x) /\ IsZero(y)
    ELSE x.sgn = y.sgn /\ BigMul(x.num, y.den) = BigMul(y.num, x.den)


\* the literals of src/tools/*.py
FeetToMetersFactor == Dec(3048, 10000)         \* 0.3048
MetersPerMile == Dec(160934, 100)              \* 1609.34
MilesToKilometersFactor == Dec(160934, 100000) \* 1.60934
KilometersToMilesFactor == Dec(621371, 1000000) \* 0.621371
MetersToFeetFactor == Dec(328084, 100000)      \* 3.28084
KilometersToMetersFactor == Whole(1000)        \* 1000

(***************************************************************************)
(* Outcome of a call: a returned value or a raised exception.              *)
(***************************************************************************)
Ret(v) == [kind |-> "return", value |-> v]
Exc(t, d) == [kind |-> "raise", type |-> t, desc |-> d]
Returned(o) == o.kind = "return"
Raised(o) == o.kind = "raise"

\* FeetToMetersResponse(...) and the three other response models; the
\* timestamp (datetime.now()) is left out.
Response(iv, iu, ov, ou) ==
    [input_value |-> iv, input_unit |-> iu, output_value |-> ov, output_unit |-> ou]

(***************************************************************************)
(* feet_to_meters                                                          *)
(***************************************************************************)
\* faulty variant: `if feet:` / `elif miles:` in place of `is not None`
FeetToMetersTool_run_truthy(kwargs) ==
    LET feet == kwargs.feet
        miles == kwargs.miles
        expressed_in_miles == kwargs.expressed_in_miles
        expressed_in_feet == kwargs.expressed_in_feet
    IN  IF ~IsNone(feet) /\ ~IsZero(feet[1])
        THEN LET meters0 == FMul(feet[1], FeetToMetersFactor)
                 meters == IF Truthy(expressed_in_miles)
                           THEN FDiv(meters0, MetersPerMile) ELSE meters0
             IN  Ret(Response(feet, Some("feet"), Some(meters), Some("meters")))
        ELSE IF ~IsNone(miles) /\ ~IsZero(miles[1])
        THEN LET kilometers0 == FMul(miles[1], MilesToKilometersFactor)
                 kilometers == IF Truthy(expressed_in_feet)
                               THEN FMul(kilometers0, KilometersToMilesFactor)
                               ELSE kilometers0
             IN  Ret(Response(feet, Some("feet"), Some(kilometers), Some("kilometers")))
        ELSE Exc("ValueError", "Feet or Miles is required")

\* faulty variant: `if expressed_in_miles is not None:` in place of the
\* truth test, so that expressed_in_miles = False divides as well
FeetToMetersTool_run_flagset(kwargs) ==
    LET feet == kwargs.feet
        miles == kwargs.miles
        expressed_in_miles == kwargs.expressed_in_miles
        expressed_in_feet == kwargs.expressed_in_feet
    IN  IF ~IsNone(feet)
        THEN LET meters0 == FMul(feet[1], FeetToMetersFactor)
                 meters == IF ~IsNone(expressed_in_miles)
                           THEN FDiv(meters0, MetersPerMile) ELSE meters0
             IN  Ret(Response(feet, Some("feet"), Some(meters), Some("meters")))
        ELSE IF ~IsNone(miles)
        THEN LET kilometers0 == FMul(miles[1], MilesToKilometersFactor)
                 kilometers == IF Truthy(expressed_in_feet)
                               THEN FMul(kilometers0, KilometersToMilesFactor)
                               ELSE kilometers0
             IN  Ret(Response(feet, Some("feet"), Some(kilometers), Some("kilometers")))
        ELSE Exc("ValueError", "Feet or Miles is required")

FeetToMetersTool_run(kwargs) ==
    LET feet == kwargs.feet
        miles == kwargs.miles
        expressed_in_miles == kwargs.expressed_in_miles
        expressed_in_feet == kwargs.expressed_in_feet
    IN  IF ~IsNone(feet)
        THEN LET meters0 == FMul(feet[1], FeetToMetersFactor)
                 meters == IF Truthy(expressed_in_miles)
                           THEN FDiv(meters0, MetersPerMile) ELSE meters0
             IN  Ret(Response(feet, Some("feet"), Some(meters), Some("meters")))
        ELSE IF ~IsNone(miles)
        THEN LET kilometers0 == FMul(miles[1], MilesToKilometersFactor)
                 kilometers == IF Truthy(expressed_in_feet)
                               THEN FMul(kilometers0, KilometersToMilesFactor)
                               ELSE kilometers0
             IN  Ret(Response(feet, Some("feet"), Some(kilometers), Some("kilometers")))
        ELSE Exc("ValueError", "Feet or Miles is required")

FeetToMetersTool_arun(kwargs) ==
    LET feet == kwargs.feet
        miles == kwargs.miles
        expressed_in_miles == kwargs.expressed_in_miles
        expressed_in_feet == kwargs.expressed_in_feet
    IN  IF ~IsNone(feet)
        THEN LET meters0 == FMul(feet[1], FeetToMetersFactor)
                 meters == IF Truthy(expressed_in_miles)
                           THEN FDiv(meters0, MetersPerMile) ELSE meters0
             IN  Ret(Response(feet, Some("feet"), Some(meters), Some("meters")))
        ELSE IF ~IsNone(miles)
        THEN LET kilometers0 == FMul(miles[1], MilesToKilometersFactor)
                 kilometers == IF Truthy(expressed_in_feet)
                               THEN FMul(kilometers0, KilometersToMilesFactor)
                               ELSE kilometers0
             IN  Ret(Response(feet, Some("feet"), Some(kilometers), Some("kilometers")))
        ELSE Exc("ValueError", "Feet or Miles is required")

(***************************************************************************)
(* meters_to_feet                                                          *)
(***************************************************************************)
\* faulty variant: the kilometers branch tested before the meters branch
MetersToFeetTool_run_kilometers_first(kwargs) ==
    LET meters == kwargs.meters
        kilometers == kwargs.kilometers
        expressed_in_kilometers == kwargs.expressed_in_kilometers
        expressed_in_meters == kwargs.expressed_in_meters
    IN  IF ~IsNone(kilometers)
        THEN LET meters0 == FMul(kilometers[1], KilometersToMetersFactor)
                 meters1 == IF Truthy(expressed_in_meters)
                            THEN FDiv(meters0, MetersToFeetFactor) ELSE meters0
             IN  Ret(Response(kilometers, Some("kilometers"), Some(meters1), Some("meters")))
        ELSE IF ~IsNone(meters)
        THEN LET feet0 == FMul(meters[1], MetersToFeetFactor)
                 feet == IF Truthy(expressed_in_kilometers)
                         THEN FDiv(feet0, MilesToKilometersFactor) ELSE feet0
             IN  Ret(Response(meters, Some("meters"), Some(feet), Some("feet")))
        ELSE Exc("ValueError", "Meters or Kilometers is required")

MetersToFeetTool_run(kwargs) ==
    LET meters == kwargs.meters
        kilometers == kwargs.kilometers
        expressed_in_kilometers == kwargs.expressed_in_kilometers
        expressed_in_meters == kwargs.expressed_in_meters
    IN  IF ~IsNone(meters)
        THEN LET feet0 == FMul(meters[1], MetersToFeetFactor)
                 feet == IF Truthy(expressed_in_kilometers)
                         THEN FDiv(feet0, MilesToKilometersFactor) ELSE feet0
             IN  Ret(Response(meters, Some("meters"), Some(feet), Some("feet")))
        ELSE IF ~IsNone(kilometers)
        THEN LET meters0 == FMul(kilometers[1], KilometersToMetersFactor)
                 meters1 == IF Truthy(expressed_in_meters)
                            THEN FDiv(meters0, MetersToFeetFactor) ELSE meters0
             IN  Ret(Response(kilometers, Some("kilometers"), Some(meters1), Some("meters")))
        ELSE Exc("ValueError", "Meters or Kilometers is required")

\* faulty variant: the asynchronous copy without the expressed_in_meters
\* adjustment of the kilometers branch
MetersToFeetTool_arun_stale(kwargs) ==
    LET meters == kwargs.meters
        kilometers == kwargs.kilometers
        expressed_in_kilometers == kwargs.expressed_in_kilometers
    IN  IF ~IsNone(meters)
        THEN LET feet0 == FMul(meters[1], MetersToFeetFactor)
                 feet == IF Truthy(expressed_in_kilometers)
                         THEN FDiv(feet0, MilesToKilometersFactor) ELSE feet0
             IN  Ret(Response(meters, Some("meters"), Some(feet), Some("feet")))
        ELSE IF ~IsNone(kilometers)
        THEN LET meters0 == FMul(kilometers[1], KilometersToMetersFactor)
             IN  Ret(Response(kilometers, Some("kilometers"), Some(meters0), Some("meters")))
        ELSE Exc("ValueError", "Meters or Kilometers is required")

MetersToFeetTool_arun(kwargs) ==
    LET meters == kwargs.meters
        kilometers == kwargs.kilometers
        expressed_in_kilometers == kwargs.expressed_in_kilometers
        expressed_in_meters == kwargs.expressed_in_meters
    IN  IF ~IsNone(meters)
        THEN LET feet0 == FMul(meters[1], MetersToFeetFactor)
                 feet == IF Truthy(expressed_in_kilometers)
                         THEN FDiv(feet0, MilesToKilometersFactor) ELSE feet0
             IN  Ret(Response(meters, Some("meters"), Some(feet), Some("feet")))
        ELSE IF ~IsNone(kilometers)
        THEN LET meters0 == FMul(kilometers[1], KilometersToMetersFactor)
                 meters1 == IF Truthy(expressed_in_meters)
                            THEN FDiv(meters0, MetersToFeetFactor) ELSE meters0
             IN  Ret(Response(kilometers, Some("kilometers"), Some(meters1), Some("meters")))
        ELSE Exc("ValueError", "Meters or Kilometers is required")

(***************************************************************************)
(* celsius_to_farenheit                                                    *)
(***************************************************************************)
\* faulty variant: the factor 5 / 9 of the opposite conversion
CelsiusToFarenheitTool_run_inverted(kwargs) ==
    LET celsius == kwargs.celsius
    IN  IF IsNone(celsius) THEN Exc("ValueError", "Celsius is required")
        ELSE LET farenheit == FAdd(FDiv(FMul(celsius[1], Whole(5)), Whole(9)), Whole(32))
             IN  Ret(Response(celsius, Some("celsius"), Some(farenheit), Some("farenheit")))

CelsiusToFarenheitTool_run(kwargs) ==
    LET celsius == kwargs.celsius
    IN  IF IsNone(celsius) THEN Exc("ValueError", "Celsius is required")
        ELSE LET farenheit == FAdd(FDiv(FMul(celsius[1], Whole(9)), Whole(5)), Whole(32))
             IN  Ret(Response(celsius, Some("celsius"), Some(farenheit), Some("farenheit")))

CelsiusToFarenheitTool_arun(kwargs) ==
    LET celsius == kwargs.celsius
    IN  IF IsNone(celsius) THEN Exc("ValueError", "Celsius is required")
        ELSE LET farenheit == FAdd(FDiv(FMul(celsius[1], Whole(9)), Whole(5)), Whole(32))
             IN  Ret(Response(celsius, Some("celsius"), Some(farenheit), Some("farenheit")))

(***************************************************************************)
(* fahrenheit_to_celsius                                                   *)
(***************************************************************************)
FahrenheitToCelsiusTool_run(kwargs) ==
    LET fahrenheit == kwargs.fahrenheit
    IN  IF IsNone(fahrenheit) THEN Exc("ValueError", "Fahrenheit is required")
        ELSE LET celsius == FDiv(FMul(FSub(fahrenheit[1], Whole(32)), Whole(5)), Whole(9))
             IN  Ret(Response(fahrenheit, Some("fahrenheit"), Some(celsius), Some("celsius")))

FahrenheitToCelsiusTool_arun(kwargs) ==
    LET fahrenheit == kwargs.fahrenheit
    IN  IF IsNone(fahrenheit) THEN Exc("ValueError", "Fahrenheit is required")
        ELSE LET celsius == FDiv(FMul(FSub(fahrenheit[1], Whole(32)), Whole(5)), Whole(9))
             IN  Ret(Response(fahrenheit, Some("fahrenheit"), Some(celsius), Some("celsius")))

(***************************************************************************)
(* The tool registry of main() and dispatch by name.                       *)
(***************************************************************************)
tools == <<"feet_to_meters", "meters_to_feet", "celsius_to_farenheit", "fahrenheit_to_celsius">>
ToolNames == {tools[i] : i \in DOMAIN tools}

Run(name, kwargs) ==
    CASE name = "feet_to_meters" -> FeetToMetersTool_run(kwargs)
      [] name = "meters_to_feet" -> MetersToFeetTool_run(kwargs)
      [] name = "celsius_to_farenheit" -> CelsiusToFarenheitTool_run(kwargs)
      [] name = "fahrenheit_to_celsius" -> FahrenheitToCelsiusTool_run(kwargs)

ARun(name, kwargs) ==
    CASE name = "feet_to_meters" -> FeetToMetersTool_arun(kwargs)
      [] name = "meters_to_feet" -> MetersToFeetTool_arun(kwargs)
      [] name = "celsius_to_farenheit" -> CelsiusToFarenheitTool_arun(kwargs)
      [] name = "fahrenheit_to_celsius" -> FahrenheitToCelsiusTool_arun(kwargs)

(***************************************************************************)
(* Argument schemas (FeetToMeters, MetersToFeet, CelsiusToFarenheit,       *)
(* FahrenheitToCelsius): every declared field is set, to null or a value.  *)
(***************************************************************************)
Opt(S) == {None} \cup {Some(v) : v \in S}

LengthValues == {Whole(0), Whole(10), Whole(-3), Whole(FloatMax)}
TemperatureValues ==
    {Whole(0), Whole(32), Whole(-40), Dec(986, 10), Whole(212),
     Dec(FloatMax, 4), Whole(FloatMax), Whole(-FloatMax)}

FeetToMeters ==
    [feet : Opt(LengthValues), miles : Opt(LengthValues),
     expressed_in_miles : Opt(BOOLEAN), expressed_in_feet : Opt(BOOLEAN)]
MetersToFeet ==
    [meters : Opt(LengthValues), kilometers : Opt(LengthValues),
     expressed_in_kilometers : Opt(BOOLEAN), expressed_in_meters : Opt(BOOLEAN)]
CelsiusToFarenheit == [celsius : Opt(TemperatureValues)]
FahrenheitToCelsius == [fahrenheit : Opt(TemperatureValues)]

args_schema(name) ==
    CASE name = "feet_to_meters" -> FeetToMeters
      [] name = "meters_to_feet" -> MetersToFeet
      [] name = "celsius_to_farenheit" -> CelsiusToFarenheit
      [] name = "fahrenheit_to_celsius" -> FahrenheitToCelsius

(***************************************************************************)
(* Messages.  ToolMessage(...) is the pydantic constructor of              *)
(* langchain_core.messages.ToolMessage: tool_call_id is a required field,  *)
(* so building one without it raises a ValidationError.                    *)
(***************************************************************************)
ToolMessage(kw) ==
    IF "tool_call_id" \in DOMAIN kw
    THEN Ret([type |-> "tool", content |-> kw.content, tool_call_id |-> kw.tool_call_id])
    ELSE Exc("ValidationError", "1 validation error for ToolMessage tool_call_id Field required")

\* the handler the agent's tool node hands to the wrap_tool_call chain: it
\* runs the tool and wraps what it returns in a ToolMessage; a ValueError
\* of the tool body is raised through to the caller
execute(tool_call) ==
    LET r == Run(tool_call.name, tool_call.args)
    IN  IF Raised(r) THEN r
        ELSE ToolMessage([content |-> r.value, tool_call_id |-> tool_call.id])

\* handle_errors(request, handler); `handled` is the outcome of
\* handler(request)
handle_errors(request, handled) ==
    IF Returned(handled) THEN handled
    ELSE ToolMessage([content |-> "Error: " \o handled.desc])

\* LLM_CONFIG_MIDDLEWARE.max_retries
max_retries == 5

\* the wrap_tool_call chain of create_agent: ToolRetryMiddleware around
\* handle_errors around the tool node's handler.  A failure that leaves
\* handle_errors is retried max_retries times and, failing each time the
\* same way, ends as an error message.
ToolRetryMiddleware(tc) ==
    LET r == handle_errors(tc, execute(tc))
    IN  IF Returned(r) THEN r
        ELSE ToolMessage(
                 [content |-> "Tool '" \o tc.name \o "' failed after "
                                  \o ToString(max_retries + 1) \o " attempts with " \o r.type,
                  tool_call_id |-> tc.id])

(***************************************************************************)
(* AgentState and the state tracker.                                       *)
(***************************************************************************)
AgentState ==
    [messages |-> << >>, tool_calls_made |-> << >>, tool_call_count |-> 0,
     current_tool |-> None, last_conversion_result |-> None,
     errors |-> << >>, has_errors |-> FALSE, turn_count |-> 0,
     structured_response |-> None]

VARIABLES
    tool,       \* the tool under call
    request,    \* its validated arguments
    results,    \* outcome of _run (sync) and of _arun (async), None before the call
    wrapped,    \* outcome of the call made through handle_errors
    origin,     \* the fahrenheit input whose celsius output was fed back
    state,      \* the AgentState of the conversation
    runs,       \* the runs of track_tool_calls so far: the state given, the delta returned
    pc,         \* position in the turn
    steps,      \* steps of the agent loop taken in this turn
    invoked     \* names of the tools executed in this turn, in order

toolVars == <<tool, request, results, wrapped, origin>>
agentVars == <<state, runs, pc, steps, invoked>>
vars == <<tool, request, results, wrapped, origin, state, runs, pc, steps, invoked>>

AgentIdle ==
    /\ state = AgentState
    /\ runs = << >>
    /\ pc = "START"
    /\ steps = 0
    /\ invoked = << >>

(***************************************************************************)
(* The tools called directly: one tool, one request, both entry points,    *)
(* and the same call made through handle_errors.                           *)
(***************************************************************************)
InitTools ==
    /\ tool \in ToolNames
    /\ request \in args_schema(tool)
    /\ results = [sync |-> None, async |-> None]
    /\ wrapped = None
    /\ origin = None
    /\ AgentIdle

Invoke_run ==
    /\ results.sync = None
    /\ results' = [results EXCEPT !.sync = Some(Run(tool, request))]
    /\ UNCHANGED <<tool, request, wrapped, origin>>
    /\ UNCHANGED agentVars

Invoke_arun ==
    /\ results.async = None
    /\ results' = [results EXCEPT !.async = Some(ARun(tool, request))]
    /\ UNCHANGED <<tool, request, wrapped, origin>>
    /\ UNCHANGED agentVars

tool_call == [name |-> tool, args |-> request, id |-> "call_1"]

InterceptedCall ==
    /\ wrapped = None
    /\ wrapped' = Some(handle_errors(tool_call, execute(tool_call)))
    /\ UNCHANGED <<tool, request, results, origin>>
    /\ UNCHANGED agentVars

\* the celsius output of fahrenheit_to_celsius becomes the input of
\* celsius_to_farenheit
FeedBack ==
    /\ tool = "fahrenheit_to_celsius"
    /\ origin = None
    /\ \E e \in {"sync", "async"} :
          /\ results[e] # None
          /\ Returned(results[e][1])
          /\ request' = [celsius |-> results[e][1].value.output_value]
    /\ tool' = "celsius_to_farenheit"
    /\ origin' = request.fahrenheit
    /\ results' = [sync |-> None, async |-> None]
    /\ wrapped' = None
    /\ UNCHANGED agentVars

NextTools == Invoke_run \/ Invoke_arun \/ InterceptedCall \/ FeedBack

SpecTools == InitTools /\ [][NextTools]_vars

(***************************************************************************)
(* Messages of a conversation.  Only an AI message has the attribute       *)
(* tool_calls.                                                             *)
(***************************************************************************)
HumanMessage(content) == [type |-> "human", content |-> content]
AIMessage(content, tool_calls) ==
    [type |-> "ai", content |-> content, tool_calls |-> tool_calls]
ToolCall(name, args, id) == [name |-> name, args |-> args, id |-> id]

(***************************************************************************)
(* track_tool_calls(state): the delta it returns, a dict.                  *)
(***************************************************************************)
EmptyDict == << >>

\* faulty variant: tool_names + state.tool_calls_made
track_tool_calls_prepend(s) ==
    LET messages == s.messages
        last_message == IF messages # << >> THEN Some(messages[Len(messages)]) ELSE None
    IN  IF /\ last_message # None
           /\ "tool_calls" \in DOMAIN last_message[1]
           /\ last_message[1].tool_calls # << >>
        THEN LET tool_names ==
                     [i \in DOMAIN last_message[1].tool_calls |->
                         last_message[1].tool_calls[i].name]
             IN  [tool_calls_made |-> tool_names \o s.tool_calls_made,
                  tool_call_count |-> s.tool_call_count + Len(tool_names)]
        ELSE EmptyDict

\* faulty variant: tool_call_count + 1 per message
track_tool_calls_count_one(s) ==
    LET messages == s.messages
        last_message == IF messages # << >> THEN Some(messages[Len(messages)]) ELSE None
    IN  IF /\ last_message # None
           /\ "tool_calls" \in DOMAIN last_message[1]
           /\ last_message[1].tool_calls # << >>
        THEN LET tool_names ==
                     [i \in DOMAIN last_message[1].tool_calls |->
                         last_message[1].tool_calls[i].name]
             IN  [tool_calls_made |-> s.tool_calls_made \o tool_names,
                  tool_call_count |-> s.tool_call_count + 1]
        ELSE EmptyDict

\* variant that skips a message whose names already end tool_calls_made
track_tool_calls_skip_seen(s) ==
    LET messages == s.messages
        last_message == IF messages # << >> THEN Some(messages[Len(messages)]) ELSE None
    IN  IF /\ last_message # None
           /\ "tool_calls" \in DOMAIN last_message[1]
           /\ last_message[1].tool_calls # << >>
        THEN LET tool_names ==
                     [i \in DOMAIN last_message[1].tool_calls |->
                         last_message[1].tool_calls[i].name]
                 made == s.tool_calls_made
                 n == Len(made)
                 k == Len(tool_names)
             IN  IF n >= k /\ SubSeq(made, n - k + 1, n) = tool_names
                 THEN EmptyDict
                 ELSE [tool_calls_made |-> made \o tool_names,
                       tool_call_count |-> s.tool_call_count + k]
        ELSE EmptyDict

\* faulty variant: "tool_calls_made": tool_names, without the names
\* already recorded
track_tool_calls_overwrite(s) ==
    LET messages == s.messages
        last_message == IF messages # << >> THEN Some(messages[Len(messages)]) ELSE None
    IN  IF /\ last_message # None
           /\ "tool_calls" \in DOMAIN last_message[1]
           /\ last_message[1].tool_calls # << >>
        THEN LET tool_names ==
                     [i \in DOMAIN last_message[1].tool_calls |->
                         last_message[1].tool_calls[i].name]
             IN  [tool_calls_made |-> tool_names,
                  tool_call_count |-> s.tool_call_count + Len(tool_names)]
        ELSE EmptyDict

\* faulty variant: a trailing tool message is recorded in errors
track_tool_calls_record_errors(s) ==
    LET messages == s.messages
        last_message == IF messages # << >> THEN Some(messages[Len(messages)]) ELSE None
    IN  IF /\ last_message # None
           /\ "tool_calls" \in DOMAIN last_message[1]
           /\ last_message[1].tool_calls # << >>
        THEN LET tool_names ==
                     [i \in DOMAIN last_message[1].tool_calls |->
                         last_message[1].tool_calls[i].name]
             IN  [tool_calls_made |-> s.tool_calls_made \o tool_names,
                  tool_call_count |-> s.tool_call_count + Len(tool_names)]
        ELSE IF last_message # None /\ last_message[1].type = "tool"
        THEN [errors |-> Append(s.errors, last_message[1].content),
              has_errors |-> TRUE]
        ELSE EmptyDict

track_tool_calls(s) ==
    LET messages == s.messages
        last_message == IF messages # << >> THEN Some(messages[Len(messages)]) ELSE None
    IN  IF /\ last_message # None
           /\ "tool_calls" \in DOMAIN last_message[1]
           /\ last_message[1].tool_calls # << >>
        THEN LET tool_names ==
                     [i \in DOMAIN last_message[1].tool_calls |->
                         last_message[1].tool_calls[i].name]
             IN  [tool_calls_made |-> s.tool_calls_made \o tool_names,
                  tool_call_count |-> s.tool_call_count + Len(tool_names)]
        ELSE EmptyDict

\* how the graph applies a node's delta to the AgentState: the keys
\* tool_calls_made and tool_call_count have no reducer and are overwritten
Update(s, d) == [k \in DOMAIN s |-> IF k \in DOMAIN d THEN d[k] ELSE s[k]]

\* the node track_state
RunTracker ==
    LET d == track_tool_calls(state)
    IN  /\ state' = Update(state, d)
        /\ runs' = Append(runs, [given |-> state, returned |-> d])

(***************************************************************************)
(* The tracker over any sequence of agent steps and tracker runs: an agent *)
(* step appends a message, a tracker run applies track_tool_calls.         *)
(***************************************************************************)
MaxMessages == 2
MaxRuns == 3
MaxCallsPerMessage == 2

\* sequences over S of length at most n
RECURSIVE SeqsUpTo(_, _)
SeqsUpTo(S, n) ==
    IF n = 0 THEN {<< >>}
    ELSE LET shorter == SeqsUpTo(S, n - 1)
         IN  shorter \cup {Append(q, x) : q \in shorter, x \in S}

NoArgs == [celsius |-> None]
StepCalls ==
    {ToolCall("feet_to_meters", NoArgs, 1), ToolCall("celsius_to_farenheit", NoArgs, 2)}
NothingGiven ==
    [feet |-> None, miles |-> None,
     expressed_in_miles |-> None, expressed_in_feet |-> None]

\* the tool message a call of feet_to_meters without feet and miles ends as
FailedToolMessage ==
    ToolRetryMiddleware(ToolCall("feet_to_meters", NothingGiven, 1)).value

StepMessages ==
    {HumanMessage("question"),
     [type |-> "tool", content |-> "result", tool_call_id |-> 1],
     FailedToolMessage}
    \cup {AIMessage("", tcs) : tcs \in SeqsUpTo(StepCalls, MaxCallsPerMessage)}

ToolsIdle ==
    /\ tool = tools[1]
    /\ request = NothingGiven
    /\ results = [sync |-> None, async |-> None]
    /\ wrapped = None
    /\ origin = None

InitTracker == ToolsIdle /\ AgentIdle

AgentStep ==
    /\ Len(state.messages) < MaxMessages
    /\ \E m \in StepMessages :
          state' = [state EXCEPT !.messages = Append(@, m)]
    /\ UNCHANGED <<runs, pc, steps, invoked>>
    /\ UNCHANGED toolVars

TrackerRun ==
    /\ Len(runs) < MaxRuns
    /\ RunTracker
    /\ UNCHANGED <<pc, steps, invoked>>
    /\ UNCHANGED toolVars

NextTracker == AgentStep \/ TrackerRun

SpecTracker == InitTracker /\ [][NextTracker]_vars

(***************************************************************************)
(* One turn of main(): compiled_agent.invoke on a question.  The graph is  *)
(* START -> agent -> track_state -> END; the node agent is the whole       *)
(* model/tools loop built by create_agent, the node track_state runs       *)
(* track_tool_calls once, after that loop has ended.                       *)
(***************************************************************************)
\* without a recursion_limit in the config the graph runs with its default
recursion_limit_default == 5 * 5
recursion_limit == 50
\* tool calls after which the model only repeats its last request or answers
MaxVariedCalls == 2

\* what the model asks for: a call that fails (NothingGiven) and a call
\* that succeeds
BodyTemperature == [fahrenheit |-> Some(Dec(986, 10))]
ModelCalls ==
    {<<"feet_to_meters", NothingGiven>>, <<"fahrenheit_to_celsius", BodyTemperature>>}
ModelRequests ==
    {[i \in DOMAIN q |-> ToolCall(q[i][1], q[i][2], i)] :
        q \in SeqsUpTo(ModelCalls, MaxCallsPerMessage) \ {<< >>}}

\* the tool message each call the model can make ends as
ModelToolCalls ==
    {ToolCall(c[1], c[2], i) : c \in ModelCalls, i \in 1..MaxCallsPerMessage}
ToolMessages == [tc \in ModelToolCalls |-> ToolRetryMiddleware(tc).value]

LastMessage == state.messages[Len(state.messages)]

\* the tool calls of the latest AI message
PreviousRequest ==
    LET ai == {i \in DOMAIN state.messages : state.messages[i].type = "ai"}
    IN  IF ai = {} THEN << >>
        ELSE state.messages[CHOOSE i \in ai : \A j \in ai : j <= i].tool_calls

InitAgent == ToolsIdle /\ AgentIdle

\* compiled_agent.invoke({"messages": [question]}, config)
Invoke ==
    /\ pc = "START"
    /\ state' = [AgentState EXCEPT
                     !.messages = <<HumanMessage("Convert 10 feet to meters")>>]
    /\ pc' = "MODEL_CALL"
    /\ UNCHANGED <<runs, steps, invoked>>
    /\ UNCHANGED toolVars

\* the model names tools
ModelRequestsTools ==
    /\ pc = "MODEL_CALL"
    /\ steps < recursion_limit
    /\ \E tcs \in ModelRequests :
          /\ \/ Len(invoked) < MaxVariedCalls
             \/ tcs = PreviousRequest
          /\ state' = [state EXCEPT !.messages = Append(@, AIMessage("", tcs))]
    /\ pc' = "TOOL_CALL"
    /\ steps' = steps + 1
    /\ UNCHANGED <<runs, invoked>>
    /\ UNCHANGED toolVars

\* the model answers in plain text: the loop ends
ModelAnswers ==
    /\ pc = "MODEL_CALL"
    /\ steps < recursion_limit
    /\ state' = [state EXCEPT !.messages = Append(@, AIMessage("answer", << >>))]
    /\ pc' = "STATE_UPDATE"
    /\ steps' = steps + 1
    /\ UNCHANGED <<runs, invoked>>
    /\ UNCHANGED toolVars

\* the model answers through the structured-output tool AgentResponse
\* (ToolStrategy): the AI message is followed by a tool message and the
\* loop ends
ModelAnswersStructured ==
    /\ pc = "MODEL_CALL"
    /\ steps < recursion_limit
    /\ state' = [state EXCEPT
                     !.messages = @ \o
                         <<AIMessage("", <<ToolCall("AgentResponse", [final_answer |-> "answer"], 1)>>),
                           [type |-> "tool", content |-> "Returning structured response",
                            tool_call_id |-> 1]>>,
                     !.structured_response = Some([final_answer |-> "answer"])]
    /\ pc' = "STATE_UPDATE"
    /\ steps' = steps + 1
    /\ UNCHANGED <<runs, invoked>>
    /\ UNCHANGED toolVars

\* the tools node: every call of the last AI message goes through the
\* wrap_tool_call chain; the tool messages are appended in order
ToolsNode ==
    /\ pc = "TOOL_CALL"
    /\ steps < recursion_limit
    /\ LET tcs == LastMessage.tool_calls
       IN  /\ state' = [state EXCEPT
                            !.messages = @ \o [i \in DOMAIN tcs |-> ToolMessages[tcs[i]]]]
           /\ invoked' = invoked \o [i \in DOMAIN tcs |-> tcs[i].name]
    /\ pc' = "MODEL_CALL"
    /\ steps' = steps + 1
    /\ UNCHANGED <<runs>>
    /\ UNCHANGED toolVars

\* the loop has used its recursion_limit steps without ending: invoke
\* raises GraphRecursionError, which main() does not catch
OutOfSteps ==
    /\ pc \in {"MODEL_CALL", "TOOL_CALL"}
    /\ steps >= recursion_limit
    /\ pc' = "ABORTED"
    /\ UNCHANGED <<state, runs, steps, invoked>>
    /\ UNCHANGED toolVars

\* the node track_state, then END
TrackState ==
    /\ pc = "STATE_UPDATE"
    /\ RunTracker
    /\ pc' = "END"
    /\ UNCHANGED <<steps, invoked>>
    /\ UNCHANGED toolVars

Next ==
    \/ Invoke
    \/ ModelRequestsTools
    \/ ModelAnswers
    \/ ModelAnswersStructured
    \/ ToolsNode
    \/ OutOfSteps
    \/ TrackState

Spec == InitAgent /\ [][Next]_vars

\* the graph runtime runs the next node as long as one is ready
FairSpec == Spec /\ WF_vars(Next)

(***************************************************************************)
(* Properties of the tools (SpecTools).                                    *)
(***************************************************************************)
EntryPoints == {"sync", "async"}
Called(e) == results[e] # None
Outcome(e) == results[e][1]

TwoPrimary == {"feet_to_meters", "meters_to_feet"}
PrimaryA == IF tool = "feet_to_meters" THEN request.feet ELSE request.meters
PrimaryB == IF tool = "feet_to_meters" THEN request.miles ELSE request.kilometers
MissingRequiredField ==
    IF tool = "feet_to_meters" THEN "Feet or Miles is required"
    ELSE "Meters or Kilometers is required"

\* C1: feet_to_meters and meters_to_feet, through either entry point, fail
\* with the missing-required-field failure exactly when both primary fields
\* are null; with exactly one primary field present (0 included) nothing is
\* raised and a result is returned.
C1_MissingFieldIffBothNull ==
    \A e \in EntryPoints :
        (tool \in TwoPrimary /\ Called(e)) =>
            /\ (Raised(Outcome(e)) /\ Outcome(e).desc = MissingRequiredField)
                   <=> (IsNone(PrimaryA) /\ IsNone(PrimaryB))
            /\ (IsNone(PrimaryA) # IsNone(PrimaryB)) => Returned(Outcome(e))

C1_ZeroFeetReturns ==
    /\ tool = "feet_to_meters"
    /\ request.feet = Some(Whole(0))
    /\ IsNone(request.miles)
    /\ Called("sync")
    /\ Returned(Outcome("sync"))

\* C2: when the handler raises a failure with description d, handle_errors
\* returns a tool message whose content is "Error: " followed by d and
\* raises nothing.
C2_InterceptorReturnsErrorMessage ==
    (wrapped # None /\ Raised(execute(tool_call))) =>
        /\ Returned(wrapped[1])
        /\ wrapped[1].value.content = "Error: " \o execute(tool_call).desc

\* C8: for each of the four tools and every request, _run and _arun end
\* alike: both raise the same failure or both return equal results.
C8_SyncAsyncAgree ==
    (Called("sync") /\ Called("async")) =>
        \/ /\ Raised(Outcome("sync")) /\ Raised(Outcome("async"))
           /\ Outcome("sync").desc = Outcome("async").desc
        \/ /\ Returned(Outcome("sync")) /\ Returned(Outcome("async"))
           /\ Outcome("sync").value = Outcome("async").value

C8_BothEntryPointsReturned ==
    /\ tool = "meters_to_feet"
    /\ IsNone(request.meters)
    /\ request.kilometers = Some(Whole(10))
    /\ Truthy(request.expressed_in_meters)
    /\ Called("sync") /\ Called("async")
    /\ Returned(Outcome("sync")) /\ Returned(Outcome("async"))

\* C9: with feet = f non-null, feet_to_meters returns unit "meters" and
\* value f * 0.3048, divided by 1609.34 when expressed_in_miles is true;
\* feet = 10 with no modifier gives 3.048; miles and expressed_in_feet do
\* not enter.
C9_FeetBranchValue ==
    \A e \in EntryPoints :
        (tool = "feet_to_meters" /\ ~IsNone(request.feet) /\ Called(e)) =>
            /\ Returned(Outcome(e))
            /\ Outcome(e).value.output_unit = Some("meters")
            /\ LET f == request.feet[1]
                   out == Outcome(e).value.output_value[1]
               IN  /\ request.expressed_in_miles \in {None, Some(FALSE)}
                        => NumEq(out, QMul(f, Dec(3048, 10000)))
                   /\ request.expressed_in_miles = Some(TRUE)
                        => NumEq(QMul(out, Dec(160934, 100)), QMul(f, Dec(3048, 10000)))
                   /\ (f = Whole(10) /\ IsNone(request.expressed_in_miles))
                        => NumEq(out, Dec(3048, 1000))

C9_TenFeetInMiles ==
    /\ tool = "feet_to_meters"
    /\ request.feet = Some(Whole(10))
    /\ request.expressed_in_miles = Some(TRUE)
    /\ ~IsNone(request.miles)
    /\ Called("sync")
    /\ Returned(Outcome("sync"))

\* the magnitude of x is at most n
AbsAtMost(x, n) == ~IsInf(x) /\ BigCmp(x.num, BigMul(Big(n), x.den)) <= 0
\* (x - 32) * 5 stays within the float range
NoOverflow(x) == AbsAtMost(QMul(QSub(x, Whole(32)), Whole(5)), FloatMax)

TemperatureTools == {"celsius_to_farenheit", "fahrenheit_to_celsius"}
TemperatureInput ==
    IF tool = "celsius_to_farenheit" THEN request.celsius ELSE request.fahrenheit

\* C10 as stated: for every finite non-null x the celsius output of
\* fahrenheit_to_celsius(x), fed to celsius_to_farenheit, comes back as x,
\* and neither tool raises for a non-null input.
C10_RoundTripEveryFinite ==
    \A e \in EntryPoints :
        /\ (tool \in TemperatureTools /\ ~IsNone(TemperatureInput) /\ Called(e))
               => Returned(Outcome(e))
        /\ (origin # None /\ Called(e))
               => NumEq(Outcome(e).value.output_value[1], origin[1])

\* C10 amended: the round trip returns x whenever the intermediate
\* (x - 32) * 5 does not overflow the float range; neither tool raises for
\* a non-null input.
C10_RoundTripWithinRange ==
    \A e \in EntryPoints :
        /\ (tool \in TemperatureTools /\ ~IsNone(TemperatureInput) /\ Called(e))
               => Returned(Outcome(e))
        /\ (origin # None /\ NoOverflow(origin[1]) /\ Called(e))
               => NumEq(Outcome(e).value.output_value[1], origin[1])

C10_BodyTemperatureBack ==
    /\ origin = Some(Dec(986, 10))
    /\ Called("sync")
    /\ Returned(Outcome("sync"))
    /\ NumEq(Outcome("sync").value.input_value[1], Whole(37))
    /\ NumEq(Outcome("sync").value.output_value[1], Dec(986, 10))

\* the primary value that selects the branch of a call, and its unit
SelectedValue ==
    IF tool \in TwoPrimary
    THEN IF ~IsNone(PrimaryA) THEN PrimaryA ELSE PrimaryB
    ELSE TemperatureInput
SelectedUnit ==
    CASE tool = "feet_to_meters" -> IF ~IsNone(request.feet) THEN "feet" ELSE "miles"
      [] tool = "meters_to_feet" -> IF ~IsNone(request.meters) THEN "meters" ELSE "kilometers"
      [] tool = "celsius_to_farenheit" -> "celsius"
      [] tool = "fahrenheit_to_celsius" -> "fahrenheit"

\* C12: in every result returned by any branch of the four tools,
\* input_value is the non-null primary value that selected the branch and
\* input_unit names that value's unit; input_value is never null.
C12_InputEchoesSelection ==
    \A e \in EntryPoints :
        (Called(e) /\ Returned(Outcome(e))) =>
            /\ ~IsNone(Outcome(e).value.input_value)
            /\ Outcome(e).value.input_value = SelectedValue
            /\ Outcome(e).value.input_unit = Some(SelectedUnit)

\* the call of entry point e on other arguments
Call(e, name, kwargs) == IF e = "sync" THEN Run(name, kwargs) ELSE ARun(name, kwargs)

\* the request with its second primary field set to b and the modifier of
\* the second branch set to m
WithSecond(b, m) ==
    IF tool = "feet_to_meters"
    THEN [request EXCEPT !.miles = b, !.expressed_in_feet = m]
    ELSE [request EXCEPT !.kilometers = b, !.expressed_in_meters = m]

\* C13: with both primary fields non-null feet_to_meters takes the feet
\* branch (output_unit "meters") and meters_to_feet the meters branch
\* (output_unit "feet"); nothing is raised, and the result is the one of
\* the same request with any other second primary value and any other
\* modifier of the second branch.
C13_FirstPrimaryWins ==
    \A e \in EntryPoints :
        (/\ tool \in TwoPrimary /\ Called(e)
         /\ ~IsNone(PrimaryA) /\ ~IsNone(PrimaryB)) =>
            /\ Returned(Outcome(e))
            /\ Outcome(e).value.output_unit =
                   Some(IF tool = "feet_to_meters" THEN "meters" ELSE "feet")
            /\ \A b \in Opt(LengthValues), m \in Opt(BOOLEAN) :
                   Call(e, tool, WithSecond(b, m)) = Outcome(e)

C13_BothPrimaryMetersFirst ==
    /\ tool = "meters_to_feet"
    /\ request.meters = Some(Whole(10))
    /\ request.kilometers = Some(Whole(-3))
    /\ request.expressed_in_meters = Some(TRUE)
    /\ Called("sync")
    /\ Returned(Outcome("sync"))
    /\ Outcome("sync").value.output_unit = Some("feet")

(***************************************************************************)
(* Properties of the state tracker (SpecTracker).                          *)
(***************************************************************************)
\* the tool invocations a message list ends with: those of its last
\* message when that is an AI message, none otherwise
Invocations(messages) ==
    IF messages = << >> THEN << >>
    ELSE LET m == messages[Len(messages)]
         IN  IF m.type = "ai" THEN m.tool_calls ELSE << >>

\* the state a run leaves
After(run) == Update(run.given, run.returned)

\* `longer` is `shorter` followed by the names of `calls`, in order
ExtendsByNames(longer, shorter, calls) ==
    /\ Len(longer) = Len(shorter) + Len(calls)
    /\ \A j \in 1..Len(shorter) : longer[j] = shorter[j]
    /\ \A j \in 1..Len(calls) : longer[Len(shorter) + j] = calls[j].name

\* C3: given state s whose last message carries invocations n1..nk
\* (k >= 1), the tracker yields tool_calls_made = s.tool_calls_made followed
\* by n1..nk in order and tool_call_count = s.tool_call_count + k; with no
\* invocation, or no message, the delta is empty and the state unchanged.
C3_TrackerDelta ==
    \A i \in DOMAIN runs :
        LET s == runs[i].given
            calls == Invocations(s.messages)
        IN  /\ Len(calls) >= 1 =>
                  /\ ExtendsByNames(After(runs[i]).tool_calls_made, s.tool_calls_made, calls)
                  /\ After(runs[i]).tool_call_count = s.tool_call_count + Len(calls)
            /\ Len(calls) = 0 =>
                  /\ runs[i].returned = EmptyDict
                  /\ After(runs[i]) = s
            /\ i = Len(runs) =>
                  /\ state.tool_calls_made = After(runs[i]).tool_calls_made
                  /\ state.tool_call_count = After(runs[i]).tool_call_count

C3_TwoNamesAppended ==
    /\ Len(runs) = 2
    /\ runs[2].given.tool_calls_made = <<"celsius_to_farenheit">>
    /\ state.tool_calls_made =
           <<"celsius_to_farenheit", "feet_to_meters", "celsius_to_farenheit">>
    /\ state.tool_call_count = 3

\* runs i and i + 1 are two runs in a row on the same messages
Replay(i) ==
    /\ i \in DOMAIN runs /\ i + 1 \in DOMAIN runs
    /\ runs[i + 1].given.messages = runs[i].given.messages
    /\ runs[i + 1].given = After(runs[i])

\* C4 as stated: a second run in a row on the same messages changes
\* neither tool_call_count nor tool_calls_made.
C4_ReplayIsNoOp ==
    \A i \in DOMAIN runs :
        Replay(i) =>
            /\ After(runs[i + 1]).tool_call_count = runs[i + 1].given.tool_call_count
            /\ After(runs[i + 1]).tool_calls_made = runs[i + 1].given.tool_calls_made

\* C4 amended: a second run in a row on the same messages counts the k
\* invocations of the last message once more, and is a no-op exactly when
\* k = 0.
C4_ReplayCountsAgain ==
    \A i \in DOMAIN runs :
        Replay(i) =>
            LET calls == Invocations(runs[i].given.messages)
                before == runs[i].given
                again == After(runs[i + 1])
            IN  /\ again.tool_call_count = before.tool_call_count + 2 * Len(calls)
                /\ ExtendsByNames(again.tool_calls_made,
                                  After(runs[i]).tool_calls_made, calls)
                /\ (again = runs[i + 1].given) <=> (Len(calls) = 0)

C4_ReplayedMessageWithCalls ==
    /\ Replay(1)
    /\ Len(Invocations(runs[1].given.messages)) = 2
    /\ state.tool_call_count = 4

\* C5: in every state reached from the default state by agent steps and
\* tracker runs, tool_call_count is the length of tool_calls_made.
C5_CountIsLength ==
    state.tool_call_count = Len(state.tool_calls_made)

C5_SeveralRunsCounted ==
    /\ Len(runs) = 3
    /\ state.tool_call_count = 5
    /\ Len(state.messages) = 2

\* `shorter` is a prefix of `longer`
IsPrefix(shorter, longer) ==
    /\ Len(shorter) <= Len(longer)
    /\ \A j \in 1..Len(shorter) : longer[j] = shorter[j]

\* C11: in every step of a conversation tool_calls_made keeps what it held
\* as a prefix and tool_call_count does not decrease, and a step that
\* changes either field is a run of the tracker.
C11_TrackingNeverDecremented ==
    [][/\ IsPrefix(state.tool_calls_made, state'.tool_calls_made)
       /\ state'.tool_call_count >= state.tool_call_count
       /\ (\/ state'.tool_calls_made # state.tool_calls_made
           \/ state'.tool_call_count # state.tool_call_count)
              => /\ Len(runs') = Len(runs) + 1
                 /\ runs'[Len(runs')].given = state
                 /\ state'.messages = state.messages]_vars

C11_TrackingGrewTwice ==
    /\ Len(runs) = 2
    /\ runs[1].given.messages # runs[2].given.messages
    /\ runs[2].given.tool_calls_made = <<"feet_to_meters">>
    /\ state.tool_calls_made = <<"feet_to_meters", "celsius_to_farenheit">>
    /\ state.tool_call_count = 2

TrackedFields == {"tool_calls_made", "tool_call_count"}

TurnOver == pc \in {"END", "ABORTED"}

\* C6: the tracker runs after each tool step, so that at END every tool
\* invoked during the turn has its name in tool_calls_made, in invocation
\* order.
C6_InvokedToolsRecorded ==
    pc = "END" =>
        /\ state.tool_calls_made = invoked
        /\ Len(runs) = Cardinality({i \in DOMAIN state.messages :
                                       /\ state.messages[i].type = "ai"
                                       /\ state.messages[i].tool_calls # << >>
                                       /\ i < Len(state.messages) - 1})

\* C7: every turn ends; the model/tools loop takes at most
\* recursion_limit = 50 steps, and a turn that would take more is aborted
\* with the step-limit failure, whatever the model keeps requesting.
C7_TurnTerminates ==
    /\ <>TurnOver
    /\ [](steps <= 50)
    /\ [](pc = "ABORTED" => steps = 50)

C7_AbortedAtLimit ==
    /\ pc = "ABORTED"
    /\ steps = recursion_limit
    /\ Len(invoked) >= MaxVariedCalls
    /\ runs = << >>

=============================================================================
